---- MODULE Spec2Model ----
(***************************************************************************)
(* Model of systemd-calendar-parser-node: the range sequencer              *)
(* (src/utils.ts) and the expanders of src/index.ts, each a pure function  *)
(* of a parse tree.  A behaviour draws one call in Init and the action of  *)
(* the called function applies it and records what it returned or threw.   *)
(***************************************************************************)
EXTENDS Integers, Sequences, FiniteSets, TLC

VARIABLES call, ret

vars == <<call, ret>>

(***************************************************************************)
(* Bounds of the explored inputs.                                          *)
(***************************************************************************)
MaxInt == 3
MaxStep == 2
MaxEntries == 2
MaxSmall == 2
MaxUnitStep == 2

(***************************************************************************)
(* Results: a returned value or a thrown error.                            *)
(***************************************************************************)
Ok(v) == [kind |-> "ok", value |-> v, message |-> ""]

Throw(msg) == [kind |-> "throw", value |-> <<>>, message |-> msg]

NoRet == [kind |-> "none", value |-> <<>>, message |-> ""]

\* a throw inside an expression ends the caller too; otherwise the caller
\* goes on with the value
Try(r, Then(_)) == IF r.kind = "throw" THEN r ELSE Then(r.value)

\* the call returned, and what it returned is undefined
ReturnedUndefined == [kind |-> "undefined", value |-> <<>>, message |-> ""]

(***************************************************************************)
(* JavaScript values: an argument is a number or undefined, and a number   *)
(* is an integer or NaN.                                                   *)
(***************************************************************************)
Num(n) == [undef |-> FALSE, n |-> n]

Undefined == [undef |-> TRUE, n |-> 0]

Number(a) == [nan |-> a.undef, n |-> a.n]

isNaN(x) == x.nan

(***************************************************************************)
(* Text is a sequence of one-character strings.                            *)
(***************************************************************************)
UpperLetters == <<"A","B","C","D","E","F","G","H","I","J","K","L","M",
                  "N","O","P","Q","R","S","T","U","V","W","X","Y","Z">>

LowerLetters == <<"a","b","c","d","e","f","g","h","i","j","k","l","m",
                  "n","o","p","q","r","s","t","u","v","w","x","y","z">>

DigitChars == <<"0","1","2","3","4","5","6","7","8","9">>

IndexIn(seq, x) == IF \E i \in 1..Len(seq) : seq[i] = x
                   THEN CHOOSE i \in 1..Len(seq) :
                          seq[i] = x /\ \A j \in 1..(i-1) : seq[j] # x
                   ELSE 0

\* String.prototype.toLowerCase
toLowerCase(text) ==
  [i \in 1..Len(text) |->
     IF IndexIn(UpperLetters, text[i]) > 0
     THEN LowerLetters[IndexIn(UpperLetters, text[i])]
     ELSE text[i]]

\* String.prototype.substring(from, to), zero-based, to exclusive
substring(text, from, to) ==
  LET hi == IF to > Len(text) THEN Len(text) ELSE to
  IN [i \in 1..(hi - from) |-> text[from + i]]

\* Array.prototype.indexOf: zero-based, -1 when absent
indexOf(seq, x) == IndexIn(seq, x) - 1

\* UTF-16 code unit of the characters a decimal number is written with
CodeUnit(c) == IF c = "-" THEN 45 ELSE 47 + IndexIn(DigitChars, c)

RECURSIVE DigitsOf(_)
DigitsOf(n) == IF n < 10 THEN <<DigitChars[n + 1]>>
               ELSE DigitsOf(n \div 10) \o <<DigitChars[(n % 10) + 1]>>

\* Number.prototype.toString of an integer
NumberToString(n) == IF n < 0 THEN <<"-">> \o DigitsOf(-n) ELSE DigitsOf(n)

RECURSIVE ParseDigits(_, _)
ParseDigits(text, acc) ==
  IF text = <<>> THEN acc
  ELSE ParseDigits(Tail(text), 10 * acc + (IndexIn(DigitChars, Head(text)) - 1))

\* Number(text) of a text of decimal digits
NumberOfText(text) == ParseDigits(text, 0)

\* the < of two strings: by code units, a proper prefix first
RECURSIVE StringLess(_, _)
StringLess(s, t) ==
  IF t = <<>> THEN FALSE
  ELSE IF s = <<>> THEN TRUE
  ELSE IF CodeUnit(Head(s)) < CodeUnit(Head(t)) THEN TRUE
  ELSE IF CodeUnit(Head(s)) > CodeUnit(Head(t)) THEN FALSE
  ELSE StringLess(Tail(s), Tail(t))

RECURSIVE SortInsert(_, _)
SortInsert(sorted, x) ==
  IF sorted = <<>> THEN <<x>>
  ELSE IF StringLess(NumberToString(x), NumberToString(Head(sorted)))
       THEN <<x>> \o sorted
       ELSE <<Head(sorted)>> \o SortInsert(Tail(sorted), x)

\* Array.prototype.sort() with no comparator: the elements are ordered by
\* their string forms, and equal elements keep their order
RECURSIVE sort(_)
sort(seq) == IF seq = <<>> THEN <<>>
             ELSE SortInsert(sort(SubSeq(seq, 1, Len(seq) - 1)), seq[Len(seq)])

\* [...new Set(seq)]: the first occurrence of each value, in insertion order
RECURSIVE SetOf(_)
SetOf(seq) ==
  IF seq = <<>> THEN <<>>
  ELSE LET front == SetOf(SubSeq(seq, 1, Len(seq) - 1))
           x == seq[Len(seq)]
       IN IF \E i \in 1..Len(front) : front[i] = x THEN front
          ELSE Append(front, x)

(***************************************************************************)
(* range (src/utils.ts).  args are the arguments of the call, so that      *)
(* Len(args) is arguments.length.                                          *)
(***************************************************************************)
\* the ascending loop with <= for <
RECURSIVE WhileLessOrEqual(_, _, _)
WhileLessOrEqual(start, stop, step) ==
  IF start <= stop THEN <<start>> \o WhileLessOrEqual(start + step, stop, step)
  ELSE <<>>

RECURSIVE WhileLess(_, _, _)
WhileLess(start, stop, step) ==
  IF start < stop THEN <<start>> \o WhileLess(start + step, stop, step)
  ELSE <<>>

RECURSIVE WhileGreater(_, _, _)
WhileGreater(start, stop, step) ==
  IF start > stop THEN <<start>> \o WhileGreater(start + step, stop, step)
  ELSE <<>>

RangeLoops(start, stop, step) ==
  IF start = stop \/ step = 0 THEN <<>>
  ELSE LET up == IF start < stop
                 THEN IF step < 0 THEN <<>> ELSE WhileLess(start, stop, step)
                 ELSE <<>>
           returned == start < stop /\ step < 0
           start2 == start + Len(up) * step
           down == IF ~returned /\ start2 > stop
                   THEN IF step > 0 THEN <<>>
                        ELSE WhileGreater(start2, stop, step)
                   ELSE <<>>
       IN up \o down

range(args) ==
  IF Len(args) \notin {1, 2, 3} THEN Throw("Invalid arguments to range")
  ELSE LET start == IF Len(args) = 1 THEN Number(Num(0)) ELSE Number(args[1])
           stop == IF Len(args) = 1 THEN Number(args[1]) ELSE Number(args[2])
           step == IF Len(args) = 3 THEN Number(args[3])
                   ELSE IF Len(args) = 2
                        THEN IF ~isNaN(start) /\ ~isNaN(stop) /\ start.n < stop.n
                             THEN Number(Num(1)) ELSE Number(Num(-1))
                        ELSE Number(Num(1))
       IN IF isNaN(start) \/ isNaN(stop) \/ isNaN(step) THEN Ok(<<>>)
          ELSE Ok(RangeLoops(start.n, stop.n, step.n))

(***************************************************************************)
(* Parse-tree nodes (IToken of the grammar engine): a type, the matched    *)
(* text, the children, and `up`, the types of the ancestors, nearest       *)
(* first, which stands for the parent back-reference.                      *)
(***************************************************************************)
Tok(type, text, children, up) ==
  [type |-> type, text |-> text, children |-> children, up |-> up]

UnexpectedTokenTypeError == "Expected token type"

UnexpectedChildrenError == "Expected children"

\* the assert* helpers throw; here each is the condition under which it does
assertTokenTypeFails(tokens, expectedType) == tokens.type # expectedType

assertChildrenLengthEQFails(tokens, expected) == Len(tokens.children) # expected

assertChildrenLengthGEQFails(tokens, minimum) == Len(tokens.children) < minimum

assertChildrenLengthLEQFails(tokens, maximum) == Len(tokens.children) > maximum

RECURSIVE extractTextForType(_, _)
RECURSIVE ExtractTextOfChildren(_, _)
extractTextForType(tokens, type) ==
  (IF tokens.type = type THEN <<tokens.text>> ELSE <<>>)
    \o ExtractTextOfChildren(tokens.children, type)

ExtractTextOfChildren(children, type) ==
  IF children = <<>> THEN <<>>
  ELSE extractTextForType(Head(children), type)
         \o ExtractTextOfChildren(Tail(children), type)

(***************************************************************************)
(* expandSpecialExpression                                                 *)
(***************************************************************************)
SPECIAL_EXPRESSION_EXPANSION_MAP ==
  [minutely |-> "*-*-* *:*:00",
   hourly |-> "*-*-* *:00:00",
   daily |-> "*-*-* 00:00:00",
   weekly |-> "Mon *-*-* 00:00:00",
   monthly |-> "*-*-1 00:00:00",
   quarterly |-> "*-1,4,7,10-1 00:00:00",
   semiannually |-> "*-1,7-1 00:00:00",
   yearly |-> "*-1-1 00:00:00",
   annually |-> "*-1-1 00:00:00"]

\* Map.prototype.get: undefined for a key the map does not hold
MapGet(map, key) == IF key \in DOMAIN map THEN Ok(map[key]) ELSE ReturnedUndefined

\* the lookup without the check of the node's type
LookupAnyNode(tokens) ==
  IF assertChildrenLengthLEQFails(tokens, 0)
  THEN Throw(UnexpectedChildrenError)
  ELSE MapGet(SPECIAL_EXPRESSION_EXPANSION_MAP, tokens.text)

expandSpecialExpression(tokens) ==
  IF assertTokenTypeFails(tokens, "SpecialExpressions")
  THEN Throw(UnexpectedTokenTypeError)
  ELSE IF assertChildrenLengthLEQFails(tokens, 0)
  THEN Throw(UnexpectedChildrenError)
  ELSE MapGet(SPECIAL_EXPRESSION_EXPANSION_MAP, tokens.text)

(***************************************************************************)
(* The weekday expander                                                    *)
(***************************************************************************)
SHORT_DAY_NAMES == << <<"m","o","n">>, <<"t","u","e">>, <<"w","e","d">>,
                      <<"t","h","u">>, <<"f","r","i">>, <<"s","a","t">>,
                      <<"s","u","n">> >>

MapSeq(seq, Op(_)) == [i \in 1..Len(seq) |-> Op(seq[i])]

\* the key of a day name without the lower-casing
DayKeyCaseSensitive(day) == substring(day, 0, 3)

DayKey(day) == substring(toLowerCase(day), 0, 3)

DayIndex(day) == indexOf(SHORT_DAY_NAMES, day)

parseDayOfTheWeek(tokens) ==
  IF assertTokenTypeFails(tokens, "DayOfTheWeek")
  THEN Throw(UnexpectedTokenTypeError)
  ELSE LET days == extractTextForType(tokens, "DayOfTheWeek")
           uniqueDays == SetOf(MapSeq(days, DayKey))
       IN Ok(MapSeq(uniqueDays, DayIndex))

\* the ranged entry without the check of the order of its ends
RangedWeekDaySpecUnordered(tokens) ==
  Try(parseDayOfTheWeek(tokens.children[1]), LAMBDA first :
  Try(parseDayOfTheWeek(tokens.children[2]), LAMBDA second :
    range(<<Num(first[1]), Num(second[1] + 1)>>)))

parseRangedWeekDaySpec(tokens) ==
  IF assertTokenTypeFails(tokens, "RangedWeekDaySpec")
  THEN Throw(UnexpectedTokenTypeError)
  ELSE IF assertChildrenLengthEQFails(tokens, 2)
  THEN Throw(UnexpectedChildrenError)
  ELSE Try(parseDayOfTheWeek(tokens.children[1]), LAMBDA first :
       Try(parseDayOfTheWeek(tokens.children[2]), LAMBDA second :
         LET firstDay == first[1]
             secondDay == second[1]
         IN IF secondDay < firstDay
            THEN Throw("Systemd starts weeks on Monday")
            ELSE range(<<Num(firstDay), Num(secondDay + 1)>>)))

\* the loop over tokens.children of parseWeekDaySpecEntry, from child i on
RECURSIVE WeekDayEntryLoop(_, _, _)
WeekDayEntryLoop(children, i, days) ==
  IF i > Len(children) THEN Ok(days)
  ELSE Try(IF children[i].type = "RangedWeekDaySpec"
           THEN parseRangedWeekDaySpec(children[i])
           ELSE IF children[i].type = "DayOfTheWeek"
           THEN parseDayOfTheWeek(children[i])
           ELSE Throw(UnexpectedTokenTypeError),
           LAMBDA got : WeekDayEntryLoop(children, i + 1, days \o got))

parseWeekDaySpecEntry(tokens) ==
  IF assertTokenTypeFails(tokens, "WeekDaySpecEntry")
  THEN Throw(UnexpectedTokenTypeError)
  ELSE IF assertChildrenLengthGEQFails(tokens, 1)
  THEN Throw(UnexpectedChildrenError)
  ELSE WeekDayEntryLoop(tokens.children, 1, <<>>)

\* the loop over tokens.children of expandWeekDaySpec, from child i on;
\* days is the Set in insertion order
RECURSIVE WeekDaySpecLoop(_, _, _)
WeekDaySpecLoop(children, i, days) ==
  IF i > Len(children) THEN Ok(days)
  ELSE Try(parseWeekDaySpecEntry(children[i]),
           LAMBDA got : WeekDaySpecLoop(children, i + 1, SetOf(days \o got)))

expandWeekDaySpec(tokens) ==
  IF assertTokenTypeFails(tokens, "WeekDaySpec")
  THEN Throw(UnexpectedTokenTypeError)
  ELSE IF assertChildrenLengthGEQFails(tokens, 0)
  THEN Throw(UnexpectedChildrenError)
  ELSE Try(WeekDaySpecLoop(tokens.children, 1, <<>>),
           LAMBDA days : Ok(sort(days)))

(***************************************************************************)
(* The time-unit expander                                                  *)
(***************************************************************************)
tokenTypeToMaximumValue ==
  [Month |-> 12, Day |-> 31, Hour |-> 24, Minute |-> 60, Second |-> 61]

Min(a, b) == IF a < b THEN a ELSE b

\* case 'RangedTimeUnit' of expandTimeUnitSpecEntry: either 1..3 or 1..3/2
ExpandRangedTimeUnit(child, maxEndValue) ==
  IF assertChildrenLengthEQFails(child, 2) THEN Throw(UnexpectedChildrenError)
  ELSE LET start == NumberOfText(child.children[1].text)
           endToken == child.children[2]
       IN IF endToken.type = "RepeatedTimeUnit"
          THEN range(<<Num(start),
                       Num(Min(NumberOfText(endToken.children[1].text), maxEndValue)),
                       Num(NumberOfText(endToken.children[2].text))>>)
          ELSE IF endToken.type = "TimeUnitNoWildcard"
          THEN range(<<Num(start),
                       Num(Min(NumberOfText(endToken.text), maxEndValue)),
                       Num(1)>>)
          ELSE Throw("Invalid end value for RangedTimeUnit")

\* case 'RepeatedTimeUnit': 1/2
ExpandRepeatedTimeUnit(child, maxEndValue) ==
  range(<<Num(NumberOfText(child.children[1].text)),
          Num(maxEndValue),
          Num(NumberOfText(child.children[2].text))>>)

\* case 'TimeUnit': a single value, or the wildcard
ExpandTimeUnit(child) ==
  LET grandchildToken == child.children[1]
  IN IF grandchildToken.type = "TimeUnitNoWildcard"
     THEN Ok(<<NumberOfText(grandchildToken.text)>>)
     ELSE Throw("TODO")

\* the loop over token.children of expandTimeUnitSpecEntry, from child i on
RECURSIVE TimeUnitEntryLoop(_, _, _, _)
TimeUnitEntryLoop(children, i, maxEndValue, values) ==
  IF i > Len(children) THEN Ok(values)
  ELSE Try(IF children[i].type = "RangedTimeUnit"
           THEN ExpandRangedTimeUnit(children[i], maxEndValue)
           ELSE IF children[i].type = "RepeatedTimeUnit"
           THEN ExpandRepeatedTimeUnit(children[i], maxEndValue)
           ELSE IF children[i].type = "TimeUnit"
           THEN ExpandTimeUnit(children[i])
           ELSE Throw("Not a TimeUnitSpecEntry"),
           LAMBDA got :
             TimeUnitEntryLoop(children, i + 1, maxEndValue, values \o got))

expandTimeUnitSpecEntry(token) ==
  IF assertTokenTypeFails(token, "TimeUnitSpecEntry")
  THEN Throw(UnexpectedTokenTypeError)
  ELSE LET parentType == token.up[2]
       IN IF parentType \notin DOMAIN tokenTypeToMaximumValue
          THEN Throw("Unknown type not in tokenTypeToMaximumValue")
          ELSE TimeUnitEntryLoop(token.children, 1,
                                 tokenTypeToMaximumValue[parentType], <<>>)

\* the loop over the entries of one TimeUnitSpec, from entry j on
RECURSIVE TimeUnitSpecEntriesLoop(_, _, _)
TimeUnitSpecEntriesLoop(entries, j, values) ==
  IF j > Len(entries) THEN Ok(values)
  ELSE Try(expandTimeUnitSpecEntry(entries[j]),
           LAMBDA got : TimeUnitSpecEntriesLoop(entries, j + 1, values \o got))

\* the loop over tokens of expandTimeUnitSpec, from token i on
RECURSIVE TimeUnitSpecLoop(_, _, _)
TimeUnitSpecLoop(tokens, i, values) ==
  IF i > Len(tokens) THEN Ok(values)
  ELSE IF assertTokenTypeFails(tokens[i], "TimeUnitSpec")
  THEN Throw(UnexpectedTokenTypeError)
  ELSE IF assertChildrenLengthGEQFails(tokens[i], 1)
  THEN Throw(UnexpectedChildrenError)
  ELSE Try(TimeUnitSpecEntriesLoop(tokens[i].children, 1, values),
           LAMBDA got : TimeUnitSpecLoop(tokens, i + 1, got))

expandTimeUnitSpec(tokens) ==
  Try(TimeUnitSpecLoop(tokens, 1, <<>>),
      LAMBDA values : Ok(sort(SetOf(values))))

(***************************************************************************)
(* The date-spec expander                                                  *)
(***************************************************************************)
\* findChildrenByType of the grammar engine's helpers: the children of
\* tokens that have the type, in order
RECURSIVE FindInChildren(_, _)
findChildrenByType(tokens, type) == FindInChildren(tokens.children, type)

FindInChildren(children, type) ==
  IF children = <<>> THEN <<>>
  ELSE (IF Head(children).type = type THEN <<Head(children)>> ELSE <<>>)
         \o FindInChildren(Tail(children), type)

\* the inner generator of expandDateSpec, which hands its three parameters
\* on to range
years(start, stop, step) == range(<<start, stop, step>>)

expandDateSpec(tokens) ==
  IF assertTokenTypeFails(tokens, "DateSpec")
  THEN Throw(UnexpectedTokenTypeError)
  ELSE IF assertChildrenLengthGEQFails(tokens, 1)
  THEN Throw(UnexpectedChildrenError)
  ELSE LET yearNodes == findChildrenByType(tokens, "Year")
           monthNodes == findChildrenByType(tokens, "Month")
           dateNodes == findChildrenByType(tokens, "Day")
       IN IF yearNodes = <<>> \/ monthNodes = <<>> \/ dateNodes = <<>>
          THEN Throw("TypeError: undefined is not an object")
          ELSE Try(expandTimeUnitSpec(monthNodes[1].children), LAMBDA months :
               Try(expandTimeUnitSpec(dateNodes[1].children), LAMBDA dates :
               Try(years(Undefined, Undefined, Undefined), LAMBDA yielded :
                 Ok([years |-> yielded, months |-> months, dates |-> dates]))))

(***************************************************************************)
(* getNext.  now is what new Date() gives when the call runs.              *)
(***************************************************************************)
getNext(tokens, referenceDate, now) ==
  IF assertTokenTypeFails(tokens, "FullCalendarSpec")
  THEN Throw(UnexpectedTokenTypeError)
  ELSE Ok(now)

(***************************************************************************)
(* The calls explored.  A parse tree is built the way the expanders read   *)
(* it, from a plain description of the text that was parsed (src).         *)
(***************************************************************************)
Ints == (-MaxInt)..MaxInt

Steps == (-MaxStep)..MaxStep

JsArgs(ns) == [i \in 1..Len(ns) |-> Num(ns[i])]

RangeLiterals == {<<3>>, <<2, 5>>, <<0, 5, 2>>, <<5, 0, -1>>, <<2025, 2026>>}

RangeCalls ==
  {[fn |-> "range", arg |-> JsArgs(ns)] :
     ns \in {<<a, b, c>> : a \in Ints, b \in Ints, c \in Steps}
            \cup {<<a, b>> : a \in Ints, b \in Ints}
            \cup {<<a>> : a \in Ints}
            \cup RangeLiterals}
  \cup {[fn |-> "range", arg |-> <<Undefined, Undefined, Undefined>>]}

DAY_NAMES == << <<"m","o","n","d","a","y">>,
                <<"t","u","e","s","d","a","y">>,
                <<"w","e","d","n","e","s","d","a","y">>,
                <<"t","h","u","r","s","d","a","y">>,
                <<"f","r","i","d","a","y">>,
                <<"s","a","t","u","r","d","a","y">>,
                <<"s","u","n","d","a","y">> >>

Days == 0..6

Spellings == {"mon", "monday", "MON", "MonDAY"}

UpperAt(text, positions) ==
  [i \in 1..Len(text) |->
     IF i \in positions /\ IndexIn(LowerLetters, text[i]) > 0
     THEN UpperLetters[IndexIn(LowerLetters, text[i])]
     ELSE text[i]]

\* the name of day d written the way the spelling writes Monday
Spell(d, sp) ==
  LET full == DAY_NAMES[d + 1]
      short == SubSeq(full, 1, 3)
  IN CASE sp = "mon" -> short
       [] sp = "monday" -> full
       [] sp = "MON" -> UpperAt(short, 1..3)
       [] sp = "MonDAY" -> UpperAt(full, {1} \cup (4..Len(full)))

DayTok(d, sp, up) == Tok("DayOfTheWeek", Spell(d, sp), <<>>, up)

WeekDayEntryTok(e) ==
  LET up == <<"WeekDaySpec", "FullCalendarSpec">>
  IN Tok("WeekDaySpecEntry", <<>>,
         IF e.ranged
         THEN << Tok("RangedWeekDaySpec", <<>>,
                     << DayTok(e.a, e.sp, <<"RangedWeekDaySpec", "WeekDaySpecEntry">> \o up),
                        DayTok(e.b, "mon", <<"RangedWeekDaySpec", "WeekDaySpecEntry">> \o up) >>,
                     <<"WeekDaySpecEntry">> \o up) >>
         ELSE << DayTok(e.a, e.sp, <<"WeekDaySpecEntry">> \o up) >>,
         up)

WeekDaySpecTok(entries) ==
  Tok("WeekDaySpec", <<>>, MapSeq(entries, WeekDayEntryTok), <<"FullCalendarSpec">>)

SingleDay(d, sp) == [ranged |-> FALSE, a |-> d, b |-> d, sp |-> sp]

DayRange(a, b, sp) == [ranged |-> TRUE, a |-> a, b |-> b, sp |-> sp]

\* every entry in every spelling, for the specs of one entry
WeekDayEntriesAll ==
  {SingleDay(d, sp) : d \in Days, sp \in Spellings}
    \cup {DayRange(a, b, sp) : a \in Days, b \in Days, sp \in Spellings}

\* the days of the specs of several entries: Monday, Tuesday, Wednesday
\* and Sunday
SomeDays == {0, 1, 2, 6}

WeekDayEntries ==
  {SingleDay(d, "MON") : d \in SomeDays}
    \cup {DayRange(a, b, "MonDAY") : a \in SomeDays, b \in SomeDays}

\* 'Sat,Thu,Mon..Wed,Sat..Sun'
WeekDayLiteral ==
  << SingleDay(5, "MonDAY"), SingleDay(3, "mon"),
     DayRange(0, 2, "MON"), DayRange(5, 6, "monday") >>

WeekDaySrcs ==
  UNION {[1..n -> WeekDayEntries] : n \in 0..MaxEntries}
    \cup {<<e>> : e \in WeekDayEntriesAll}
    \cup {WeekDayLiteral}

WeekDayCalls ==
  {[fn |-> "expandWeekDaySpec", arg |-> WeekDaySpecTok(src), src |-> src] :
     src \in WeekDaySrcs}

SpecialTokens ==
  {Tok("SpecialExpressions", k, <<>>, <<"FullCalendarSpec">>) :
     k \in DOMAIN SPECIAL_EXPRESSION_EXPANSION_MAP}
  \cup {Tok("SpecialExpressions", k,
            <<Tok("Timezone", "UTC", <<>>, <<"SpecialExpressions">>)>>,
            <<"FullCalendarSpec">>) :
          k \in DOMAIN SPECIAL_EXPRESSION_EXPANSION_MAP}
  \cup {Tok(type, text, <<>>, <<"FullCalendarSpec">>) :
          type \in {"DateSpec", "WeekDaySpec", "TimeSpec", "FullCalendarSpec"},
          text \in {"*-*-*", "Mon", "hourly"}}

SpecialCalls == {[fn |-> "expandSpecialExpression", arg |-> t] : t \in SpecialTokens}

Fields == {"Month", "Day", "Hour", "Minute", "Second"}

\* the values tried in a field: small ones, a two-digit one, and the ones
\* around the field's maximum
UnitValues(field) ==
  (0..MaxSmall) \cup {10}
    \cup IF field \in DOMAIN tokenTypeToMaximumValue
         THEN {tokenTypeToMaximumValue[field] - 1,
               tokenTypeToMaximumValue[field],
               tokenTypeToMaximumValue[field] + 1}
         ELSE {}

UnitSteps == 1..MaxUnitStep

Single(a) == [kind |-> "single", a |-> a, b |-> a, c |-> 1]

Ranged(a, b) == [kind |-> "range", a |-> a, b |-> b, c |-> 1]

SteppedRange(a, b, c) == [kind |-> "steprange", a |-> a, b |-> b, c |-> c]

Repeated(a, c) == [kind |-> "repeat", a |-> a, b |-> a, c |-> c]

Wildcard == [kind |-> "wildcard", a |-> 0, b |-> 0, c |-> 1]

UnitEntries(field) ==
  {Single(a) : a \in UnitValues(field)}
    \cup {Ranged(a, b) : a \in UnitValues(field), b \in UnitValues(field)}
    \cup {SteppedRange(a, b, c) :
            a \in UnitValues(field), b \in UnitValues(field), c \in UnitSteps}
    \cup {Repeated(a, c) : a \in UnitValues(field), c \in UnitSteps}
    \cup {Wildcard}

NumTok(n, up) == Tok("TimeUnitNoWildcard", NumberToString(n), <<>>, up)

\* a number of a date, written with two digits at least: 03, 12, 2025
PaddedNumTok(n, up) ==
  Tok("TimeUnitNoWildcard",
      IF n < 10 THEN <<"0">> \o NumberToString(n) ELSE NumberToString(n),
      <<>>, up)

RepeatedTok(a, c, up) ==
  Tok("RepeatedTimeUnit", <<>>,
      <<NumTok(a, <<"RepeatedTimeUnit">> \o up), NumTok(c, <<"RepeatedTimeUnit">> \o up)>>,
      up)

TimeUnitEntryTok(e, field) ==
  LET up == <<"TimeUnitSpec", field>>
      in == <<"TimeUnitSpecEntry">> \o up
  IN Tok("TimeUnitSpecEntry", <<>>,
         CASE e.kind = "single" ->
                << Tok("TimeUnit", <<>>, <<NumTok(e.a, <<"TimeUnit">> \o in)>>, in) >>
           [] e.kind = "padded" ->
                << Tok("TimeUnit", <<>>, <<PaddedNumTok(e.a, <<"TimeUnit">> \o in)>>, in) >>
           [] e.kind = "wildcard" ->
                << Tok("TimeUnit", <<>>,
                       <<Tok("WILDCARD", <<"*">>, <<>>, <<"TimeUnit">> \o in)>>, in) >>
           [] e.kind = "range" ->
                << Tok("RangedTimeUnit", <<>>,
                       << NumTok(e.a, <<"RangedTimeUnit">> \o in),
                          NumTok(e.b, <<"RangedTimeUnit">> \o in) >>, in) >>
           [] e.kind = "steprange" ->
                << Tok("RangedTimeUnit", <<>>,
                       << NumTok(e.a, <<"RangedTimeUnit">> \o in),
                          RepeatedTok(e.b, e.c, <<"RangedTimeUnit">> \o in) >>, in) >>
           [] e.kind = "repeat" ->
                << RepeatedTok(e.a, e.c, in) >>,
         up)

TimeUnitSpecTok(entries, field) ==
  Tok("TimeUnitSpec", <<>>,
      [i \in 1..Len(entries) |-> TimeUnitEntryTok(entries[i], field)],
      <<field>>)

\* a spec of one entry, or of one entry and a single value after it
TimeUnitSrcs ==
  {[field |-> f, entries |-> <<e>>] : f \in {"Month"}, e \in {Single(1)}}
    \cup UNION {{[field |-> f, entries |-> <<e>>] : e \in UnitEntries(f)} : f \in Fields}
    \cup UNION {{[field |-> f, entries |-> <<e, Single(a)>>] :
                   e \in UnitEntries(f), a \in UnitValues(f)} : f \in Fields}
    \cup {[field |-> "Year", entries |-> <<Single(a)>>] : a \in 0..MaxSmall}

TimeUnitCalls ==
  {[fn |-> "expandTimeUnitSpec",
    arg |-> <<TimeUnitSpecTok(src.entries, src.field)>>,
    src |-> src] : src \in TimeUnitSrcs}

DateYears == {2003, 2025}

FieldTok(field, n) ==
  Tok(field, <<>>,
      <<TimeUnitSpecTok(<<[kind |-> "padded", a |-> n, b |-> n, c |-> 1]>>, field)>>,
      <<"DateSpec">>)

\* the tree of YYYY-MM-DD
DateSpecTok(y, m, d) ==
  Tok("DateSpec", <<>>,
      <<FieldTok("Year", y), FieldTok("Month", m), FieldTok("Day", d)>>,
      <<"FullCalendarSpec">>)

DateCalls ==
  {[fn |-> "expandDateSpec", arg |-> DateSpecTok(y, m, d),
    src |-> [y |-> y, m |-> m, d |-> d]] :
     y \in DateYears, m \in 1..12, d \in 1..31}

\* instants, in minutes since 2025-12-25T00:00:00-05:00
ReferenceDates == {959, 960, 990, 1019, 1020}

Clock == {0, 960, 961, 1020, 1080, 1440}

GetNextTokens ==
  {Tok("FullCalendarSpec", k,
       <<Tok("SpecialExpressions", k, <<>>, <<"FullCalendarSpec">>)>>, <<>>) :
     k \in {"hourly", "daily"}}
  \cup {Tok("SpecialExpressions", "hourly", <<>>, <<"FullCalendarSpec">>)}

GetNextCalls ==
  {[fn |-> "getNext", arg |-> t, referenceDate |-> r] :
     t \in GetNextTokens, r \in ReferenceDates}

(***************************************************************************)
(* The state machine: one call, applied once.                              *)
(***************************************************************************)
Init ==
  /\ ret = NoRet
  /\ \/ call \in RangeCalls
     \/ call \in WeekDayCalls
     \/ call \in SpecialCalls
     \/ call \in TimeUnitCalls
     \/ call \in DateCalls
     \/ call \in GetNextCalls

CallRange ==
  /\ call.fn = "range" /\ ret.kind = "none"
  /\ ret' = range(call.arg)
  /\ UNCHANGED call

CallExpandWeekDaySpec ==
  /\ call.fn = "expandWeekDaySpec" /\ ret.kind = "none"
  /\ ret' = expandWeekDaySpec(call.arg)
  /\ UNCHANGED call

CallExpandSpecialExpression ==
  /\ call.fn = "expandSpecialExpression" /\ ret.kind = "none"
  /\ ret' = expandSpecialExpression(call.arg)
  /\ UNCHANGED call

CallExpandTimeUnitSpec ==
  /\ call.fn = "expandTimeUnitSpec" /\ ret.kind = "none"
  /\ ret' = expandTimeUnitSpec(call.arg)
  /\ UNCHANGED call

CallExpandDateSpec ==
  /\ call.fn = "expandDateSpec" /\ ret.kind = "none"
  /\ ret' = expandDateSpec(call.arg)
  /\ UNCHANGED call

CallGetNext ==
  /\ call.fn = "getNext" /\ ret.kind = "none"
  /\ \E now \in Clock : ret' = getNext(call.arg, call.referenceDate, now)
  /\ UNCHANGED call

Next ==
  \/ CallRange
  \/ CallExpandWeekDaySpec
  \/ CallExpandSpecialExpression
  \/ CallExpandTimeUnitSpec
  \/ CallExpandDateSpec
  \/ CallGetNext

Spec == Init /\ [][Next]_vars

(***************************************************************************)
(* Properties                                                              *)
(***************************************************************************)
Returned == ret.kind # "none"

Values(seq) == {seq[i] : i \in 1..Len(seq)}

RECURSIVE AscendingSeq(_)
AscendingSeq(S) ==
  IF S = {} THEN <<>>
  ELSE LET m == CHOOSE x \in S : \A y \in S : x <= y
       IN <<m>> \o AscendingSeq(S \ {m})

StrictlyAscending(seq) == \A i \in 1..(Len(seq) - 1) : seq[i] < seq[i + 1]

IsRangeOfIntegers ==
  /\ call.fn = "range"
  /\ Returned
  /\ \A i \in 1..Len(call.arg) : ~call.arg[i].undef

\* C1: range(start, stop, step) of three integers yields start, start+step,
\* start+2*step, ... and nothing else: strictly monotonic in the direction of
\* step, every value before stop, the first value not yielded at or past stop,
\* and nothing when step is 0, start = stop or step points away from stop.
\* The one- and two-argument forms give the documented lists.
C1_RangeContract ==
  IsRangeOfIntegers =>
    /\ ret.kind = "ok"
    /\ Len(call.arg) = 3 =>
         LET start == call.arg[1].n
             stop == call.arg[2].n
             step == call.arg[3].n
             s == ret.value
             towards == /\ step # 0
                        /\ start # stop
                        /\ (stop > start) = (step > 0)
             after == start + Len(s) * step
         IN /\ \A i \in 1..Len(s) : s[i] = start + (i - 1) * step
            /\ \A i \in 1..(Len(s) - 1) :
                 IF step > 0 THEN s[i] < s[i + 1] ELSE s[i] > s[i + 1]
            /\ \A i \in 1..Len(s) : IF step > 0 THEN s[i] < stop ELSE s[i] > stop
            /\ ~towards => s = <<>>
            /\ towards => /\ s # <<>>
                          /\ IF step > 0 THEN after >= stop ELSE after <= stop
    /\ call.arg = JsArgs(<<3>>) => ret.value = <<0, 1, 2>>
    /\ call.arg = JsArgs(<<2, 5>>) => ret.value = <<2, 3, 4>>
    /\ call.arg = JsArgs(<<0, 5, 2>>) => ret.value = <<0, 2, 4>>
    /\ call.arg = JsArgs(<<5, 0, -1>>) => ret.value = <<5, 4, 3, 2, 1>>
    /\ call.arg = JsArgs(<<2025, 2026>>) => ret.value = <<2025>>

\* range(3, -2, -2) has yielded 3, 1, -1
C1_Witness ==
  /\ IsRangeOfIntegers
  /\ call.arg = JsArgs(<<3, -2, -2>>)
  /\ ret.value = <<3, 1, -1>>

InOrder(src) == \A i \in 1..Len(src) : src[i].ranged => src[i].a <= src[i].b

ExpectedDays(src) ==
  UNION {IF src[i].ranged THEN (src[i].a)..(src[i].b) ELSE {src[i].a} :
           i \in 1..Len(src)}

\* C2: for a weekday spec of day names (short or full, any case) and in-order
\* ranges A..B, expandWeekDaySpec returns exactly the named days and the days
\* from A to B inclusive, as indices Monday=0..Sunday=6, each once, ascending.
C2_WeekDayUnion ==
  (call.fn = "expandWeekDaySpec" /\ Returned /\ InOrder(call.src)) =>
    /\ ret.kind = "ok"
    /\ ret.value = AscendingSeq(ExpectedDays(call.src))
    /\ StrictlyAscending(ret.value)
    /\ Values(ret.value) \subseteq 0..6

\* 'Sat,Thu,Mon..Wed,Sat..Sun' has expanded to 0,1,2,3,5,6
C2_Witness ==
  /\ call.fn = "expandWeekDaySpec"
  /\ call.src = WeekDayLiteral
  /\ ret = Ok(<<0, 1, 2, 3, 5, 6>>)

\* C3: a weekday spec with a range whose end comes before its start fails with
\* the 'weeks start on Monday' error and returns no list, also after valid
\* entries; a range A..A is accepted and yields that day.
C3_WeekDayOrderError ==
  (call.fn = "expandWeekDaySpec" /\ Returned) =>
    /\ ~InOrder(call.src) =>
         /\ ret.kind = "throw"
         /\ ret.message = "Systemd starts weeks on Monday"
         /\ ret.value = <<>>
    /\ \A i \in 1..Len(call.src) :
         (InOrder(call.src) /\ call.src[i].ranged /\ call.src[i].a = call.src[i].b) =>
           /\ ret.kind = "ok"
           /\ call.src[i].a \in Values(ret.value)
           /\ Len(call.src) = 1 => ret.value = <<call.src[i].a>>

\* 'mon..wed,sun..tue' has thrown
C3_Witness ==
  /\ call.fn = "expandWeekDaySpec"
  /\ call.src = <<DayRange(0, 2, "MonDAY"), DayRange(6, 1, "MonDAY")>>
  /\ ret.kind = "throw"

\* 'tue..tue' has expanded to Tuesday alone
C3_WitnessSameDay ==
  /\ call.fn = "expandWeekDaySpec"
  /\ call.src = <<DayRange(1, 1, "monday")>>
  /\ ret = Ok(<<1>>)

SingleRange ==
  /\ call.fn = "expandTimeUnitSpec"
  /\ Returned
  /\ call.src.field \in Fields
  /\ Len(call.src.entries) = 1
  /\ call.src.entries[1].kind \in {"range", "steprange"}

\* C4: a time-unit range a..b or a..b/c with a <= b expands to every c-th
\* value from a up to and including min(b, maximum of the field).
C4_RangeInclusive ==
  (SingleRange /\ call.src.entries[1].a <= call.src.entries[1].b) =>
    LET e == call.src.entries[1]
        end == Min(e.b, tokenTypeToMaximumValue[call.src.field])
    IN /\ ret.kind = "ok"
       /\ Values(ret.value) = {v \in (e.a)..end : (v - e.a) % e.c = 0}

\* C5: the date spec Y-M-D expands to the years Y alone, the months <<M>> and
\* the days <<D>>.
C5_DateSpecExplicit ==
  (call.fn = "expandDateSpec" /\ Returned) =>
    /\ ret.kind = "ok"
    /\ ret.value.years = <<call.src.y>>
    /\ ret.value.months = <<call.src.m>>
    /\ ret.value.dates = <<call.src.d>>

\* the minutes between two elapses of a special expression
Period(keyword) == IF keyword = "hourly" THEN 60 ELSE 1440

NextElapse(keyword, referenceDate) ==
  ((referenceDate \div Period(keyword)) + 1) * Period(keyword)

\* C6: getNext returns the earliest instant strictly after the reference
\* instant that satisfies the spec: for 'hourly' and 16:00 it returns 17:00.
C6_NextElapse ==
  (call.fn = "getNext" /\ Returned /\ call.arg.type = "FullCalendarSpec") =>
    /\ ret.kind = "ok"
    /\ ret.value = NextElapse(call.arg.text, call.referenceDate)

\* C7: expandSpecialExpression returns nothing absent or empty: a childless
\* SpecialExpressions node gives the text the table holds for its keyword,
\* and a node of another type fails.
C7_SpecialExpression ==
  (call.fn = "expandSpecialExpression" /\ Returned) =>
    /\ ret.kind \in {"ok", "throw"}
    /\ ret.kind = "ok" => ret.value # ""
    /\ (call.arg.type = "SpecialExpressions" /\ call.arg.children = <<>>) =>
         /\ ret.kind = "ok"
         /\ ret.value = SPECIAL_EXPRESSION_EXPANSION_MAP[call.arg.text]
         /\ call.arg.text = "hourly" => ret.value = "*-*-* *:00:00"
         /\ call.arg.text = "weekly" => ret.value = "Mon *-*-* 00:00:00"
    /\ call.arg.type # "SpecialExpressions" => ret.kind = "throw"

\* 'hourly' has expanded to its canonical text
C7_Witness ==
  /\ call.fn = "expandSpecialExpression"
  /\ call.arg.type = "SpecialExpressions"
  /\ call.arg.text = "hourly"
  /\ ret = Ok("*-*-* *:00:00")

\* the '*-*-*' date spec has been refused
C7_WitnessOtherType ==
  /\ call.fn = "expandSpecialExpression"
  /\ call.arg.type = "DateSpec"
  /\ call.arg.text = "*-*-*"
  /\ ret.kind = "throw"

\* C8: the list expandTimeUnitSpec returns has no duplicates and is in
\* ascending numeric order.
C8_TimeUnitSorted ==
  (call.fn = "expandTimeUnitSpec" /\ ret.kind = "ok") =>
    StrictlyAscending(ret.value)

\* C9: a time-unit range whose end precedes its start fails; no list is
\* returned for it.
C9_TimeUnitOrderError ==
  (SingleRange /\ call.src.entries[1].b < call.src.entries[1].a) =>
    ret.kind = "throw"

FieldMinimum(field) == IF field \in {"Month", "Day"} THEN 1 ELSE 0

\* C10: a wildcard entry expands to every legal value of its field, from the
\* field's minimum to its maximum.
C10_WildcardExpands ==
  (/\ call.fn = "expandTimeUnitSpec"
   /\ Returned
   /\ call.src.field \in Fields
   /\ call.src.entries = <<Wildcard>>) =>
    /\ ret.kind = "ok"
    /\ Values(ret.value) =
         FieldMinimum(call.src.field)..tokenTypeToMaximumValue[call.src.field]

====
